---------------------------- MODULE Spec2Model ----------------------------
(***************************************************************************)
(* Verification model of the LEAN-style decision pipeline of               *)
(* quant-ai-trader: InsightCollection, the mean-variance portfolio         *)
(* construction model, the institutional risk gate and the execution       *)
(* planner.                                                                *)
(*                                                                         *)
(* Numbers: Python floats are modelled as exact rationals [n, d] in lowest *)
(* terms with d > 0 (operators R...), so rounding error of doubles is not  *)
(* modelled; times are integers (one unit = one tick of datetime).         *)
(***************************************************************************)
EXTENDS Integers, Sequences, FiniteSets, TLC

VARIABLES
    active_insights,   \* InsightCollection._active_insights, as the set of its values
    removed_symbols,   \* MeanVarianceOptimization...Model._removed_symbols
    last,              \* the last call made on the components: its name, arguments, result
    planner,           \* the attributes of one long-lived ExecutionPlanner instance
    prev,              \* an earlier call the caller remembers (as in last), to compare with
    rng,               \* the state of numpy's process-wide random generator
    context_insights,  \* AlgorithmContext.insights of the context the cycles run on
    purged,            \* the symbols create_targets purged, with no insight emitted since
    pc,                \* where each of two threads stands in its call, with its locals
    pending,           \* the stored insights whose symbol was recorded as removed since
                       \* they were stored
    service,           \* TradingService: its mode and whether it has a provider
    trades,            \* the rows of the Trade table, by id
    submissions        \* the orders the brokerage provider received, by trade id

\* The state of the components around the portfolio construction model.
planner_state == <<planner, prev>>
context_state == <<context_insights, purged>>
thread_state == <<pc, pending>>
trading_state == <<service, trades, submissions>>

vars == <<active_insights, removed_symbols, last, planner, prev, rng, context_insights,
          purged,
          pc, pending, service, trades, submissions>>

\* The state outside the collection and the portfolio construction model.
elsewhere == <<planner_state, rng, context_state, thread_state, trading_state>>

-----------------------------------------------------------------------------
(* Exact rational arithmetic standing for Python floats *)

Abs(x) == IF x < 0 THEN -x ELSE x

RECURSIVE GCD(_, _)
GCD(a, b) == IF b = 0 THEN a ELSE GCD(b, a % b)

Reduced(n, d, g) == [n |-> n \div g, d |-> d \div g]

\* n/d in lowest terms, d > 0
R(n, d) ==
    IF d < 0 THEN Reduced(-n, -d, GCD(Abs(n), Abs(d)))
    ELSE Reduced(n, d, GCD(Abs(n), Abs(d)))

RInt(k) == [n |-> k, d |-> 1]
RAdd(a, b) == R(a.n * b.d + b.n * a.d, a.d * b.d)
RSub(a, b) == R(a.n * b.d - b.n * a.d, a.d * b.d)
RMul(a, b) == R(a.n * b.n, a.d * b.d)
RDiv(a, b) == R(a.n * b.d, a.d * b.n)
RNeg(a) == [n |-> -a.n, d |-> a.d]
RAbs(a) == [n |-> Abs(a.n), d |-> a.d]
RLt(a, b) == a.n * b.d < b.n * a.d
RLe(a, b) == a.n * b.d <= b.n * a.d
RGt(a, b) == RLt(b, a)
\* Python's a // b for b > 0: the floor of the quotient
RFloorDiv(a, b) == (a.n * b.d) \div (a.d * b.n)

Zero == RInt(0)

-----------------------------------------------------------------------------
(* Bounds and fixtures *)

\* The clock (as_of, context.time) runs over 0..MaxTime.
MaxTime == 2
\* Longest list of insights handed to one add call.
MaxBatch == 2

\* Symbols are numbered in ascending alphabetical order of their tickers.
Symbols == {1, 2}
Models == {"M1", "M2"}

Times == 0..MaxTime

\* The magnitude a source model forecasts; each model has its own view.
ModelMagnitude(m) == IF m = "M1" THEN R(5, 100) ELSE R(-2, 100)

\* <<generated_time_utc, period>> of the insights the alpha models emit: two with the
\* same timestamp (a tie), two with the same expiry, one newer than the others.
Stamps == {<<0, 1>>, <<0, 2>>, <<1, 1>>}

\* The confidence a source model attaches: the two ends of the allowed range.
ModelConfidence(m) == IF m = "M1" THEN Zero ELSE RInt(1)

\* Non-finite floats, written like the rationals but with the denominator 0.
NaN == [n |-> 0, d |-> 0]
PosInf == [n |-> 1, d |-> 0]
NegInf == [n |-> -1, d |-> 0]

\* math.isfinite
isfinite(v) == v.d # 0

\* The keyword arguments Insight(...) is called with: those the alpha models mean to
\* pass and malformed ones (a zero or negative period, a non-finite magnitude, a
\* confidence outside [0, 1] or NaN).
InsightArgs ==
    UNION { { [symbol |-> s, source_model |-> m, generated_time_utc |-> st[1],
               period |-> st[2], magnitude |-> mag, confidence |-> c] :
                s \in Symbols,
                st \in Stamps \cup {<<0, 0>>, <<1, -1>>},
                mag \in {ModelMagnitude(m), NaN, PosInf, NegInf},
                c \in {ModelConfidence(m), R(-1, 10), R(11, 10), NaN} } :
            m \in Models }

\* The field validators of Insight: TRUE when the value is accepted, FALSE when the
\* validator raises.
check_finite_magnitude(v) == isfinite(v)

\* A plausible slip: only a negative period is refused.
check_positive_period_AllowZero(v) == ~(v < 0)

check_positive_period(v) == ~(v <= 0)

\* Field(ge=0.0, le=1.0): a comparison with NaN is false and fails the constraint.
confidence_in_range(v) == isfinite(v) /\ RLe(Zero, v) /\ RLe(v, RInt(1))

\* Insight(**args): the instance constructed, or none when validation raises.
Insight(args) ==
    IF /\ check_finite_magnitude(args.magnitude)
       /\ check_positive_period(args.period)
       /\ confidence_in_range(args.confidence)
    THEN {args} ELSE {}

\* The insights that exist: those the constructor returned.
Insights == UNION { Insight(args) : args \in InsightArgs }

RECURSIVE SeqsUpTo(_, _)
SeqsUpTo(S, n) ==
    IF n = 0 THEN {<<>>}
    ELSE LET shorter == SeqsUpTo(S, n - 1)
         IN  shorter \cup { Append(s, x) : s \in { t \in shorter : Len(t) = n - 1 }, x \in S }

Batches == SeqsUpTo(Insights, MaxBatch)

-----------------------------------------------------------------------------
(* Calls are synchronous: a call runs to completion (one action), its      *)
(* arguments and result stay visible in last until the caller takes the    *)
(* result (ret), and only then is the next call made.                      *)

Idle == last.op = "idle"

ret ==
    /\ ~Idle
    /\ last' = [op |-> "idle"]
    /\ UNCHANGED elsewhere
    /\ UNCHANGED <<active_insights, removed_symbols>>

-----------------------------------------------------------------------------
(* lean_bridge/contracts.py *)

Key(i) == <<i.symbol, i.source_model>>

\* A plausible slip: the expiry instant itself still counts as valid.
is_expired_Strict(i, utc_time) == i.generated_time_utc + i.period < utc_time

is_expired(i, utc_time) == i.generated_time_utc + i.period <= utc_time

\* model_config = ConfigDict(frozen=True) of Insight and of PortfolioTarget
Insight_frozen == TRUE

\* A plausible slip: the model_config line is left out of the class (a pydantic model
\* is mutable unless configured otherwise).
PortfolioTarget_frozen_Unset == FALSE

PortfolioTarget_frozen == TRUE

\* obj.name = value on a pydantic model: a frozen model raises and assigns nothing.
SetAttr(is_frozen, obj, name, value) ==
    IF is_frozen THEN [raised |-> TRUE, obj |-> obj]
    ELSE [raised |-> FALSE, obj |-> [obj EXCEPT ![name] = value]]

-----------------------------------------------------------------------------
(* lean_bridge/insight_collection.py *)

Stored(store, k) == { e \in store : Key(e) = k }

\* A plausible slip: the last write wins whatever its timestamp.
AddOne_LastWriteWins(store, insight) ==
    (store \ Stored(store, Key(insight))) \cup {insight}

\* A plausible slip: only a strictly newer insight replaces (on a tie the first wins).
AddOne_StrictlyNewer(store, insight) ==
    LET existing == Stored(store, Key(insight))
    IN  IF existing = {}
        THEN store \cup {insight}
        ELSE IF \A e \in existing : insight.generated_time_utc > e.generated_time_utc
             THEN (store \ existing) \cup {insight}
             ELSE store

\* One iteration of the loop of add.
AddOne(store, insight) ==
    LET existing == Stored(store, Key(insight))
    IN  IF existing = {}
        THEN store \cup {insight}
        ELSE IF \A e \in existing : insight.generated_time_utc >= e.generated_time_utc
             THEN (store \ existing) \cup {insight}
             ELSE store

RECURSIVE AddAll(_, _)
AddAll(store, insights) ==
    IF insights = <<>> THEN store
    ELSE AddAll(AddOne(store, Head(insights)), Tail(insights))

\* A plausible slip: an insight is dropped only once its expiry instant has passed.
RemoveExpired_PastOnly(store, utc_time) ==
    { e \in store : ~(e.generated_time_utc + e.period < utc_time) }

RemoveExpired(store, utc_time) == { e \in store : ~is_expired(e, utc_time) }

\* A plausible slip: only the entries of one source model are dropped.
Clear_FirstModelOnly(store, symbols) ==
    { e \in store : e.symbol \notin symbols \/ e.source_model # "M1" }

Clear(store, symbols) == { e \in store : e.symbol \notin symbols }

GetActiveInsights(store, utc_time) == { e \in store : ~is_expired(e, utc_time) }

add ==
    /\ Idle
    /\ UNCHANGED elsewhere
    /\ \E batch \in Batches :
            /\ active_insights' = AddAll(active_insights, batch)
            /\ last' = [op |-> "add", insights |-> batch]
            /\ UNCHANGED removed_symbols

remove_expired ==
    /\ Idle
    /\ UNCHANGED elsewhere
    /\ \E t \in Times :
            /\ active_insights' = RemoveExpired(active_insights, t)
            /\ last' = [op |-> "remove_expired", utc_time |-> t,
                        deleted |-> active_insights \ RemoveExpired(active_insights, t)]
            /\ UNCHANGED removed_symbols

clear ==
    /\ Idle
    /\ UNCHANGED elsewhere
    /\ \E syms \in SUBSET Symbols :
            /\ active_insights' = Clear(active_insights, syms)
            /\ last' = [op |-> "clear", symbols |-> syms,
                        deleted |-> active_insights \ Clear(active_insights, syms)]
            /\ UNCHANGED removed_symbols

get_active_insights ==
    /\ Idle
    /\ UNCHANGED elsewhere
    /\ \E t \in Times :
            /\ last' = [op |-> "get_active_insights", utc_time |-> t,
                        result |-> GetActiveInsights(active_insights, t)]
            /\ UNCHANGED <<active_insights, removed_symbols>>

InitColl ==
    /\ active_insights = {}
    /\ removed_symbols = {}
    /\ last = [op |-> "idle"]
    /\ planner = [min_trade_value |-> RInt(500)]
    /\ prev = [op |-> "none"]
    /\ rng = [seed |-> 0, drawn |-> 0]
    /\ context_insights = <<>>
    /\ purged = {}
    /\ pc = [create_targets |-> "idle", time |-> 0,
             on_securities_changed |-> "idle", removed |-> {}, stale |-> FALSE]
    /\ pending = {}
    /\ service = [mode |-> "none", provider |-> FALSE]
    /\ trades = <<>>
    /\ submissions = <<>>

NextColl == add \/ remove_expired \/ clear \/ get_active_insights \/ ret

SpecColl == InitColl /\ [][NextColl]_vars

-----------------------------------------------------------------------------
(* PortfolioTarget lists and the AlgorithmContext fields the gates read *)

\* Longest list of targets handed to adjust_targets or execute.
MaxTargets == 2

\* Signed quantities (shares): whole and fractional, long and short.
Quantities == {RInt(-20), RInt(-3), Zero, RInt(3), RInt(8), RInt(20), R(50, 3)}

\* PortfolioTarget.tag is optional: None when the caller gives none.
NoTag == "None"

\* The targets of the portfolio construction model carry its tag; a target built by
\* hand has none.
Targets ==
    [symbol : Symbols, quantity : Quantities, tag : {"MVO Output"}]
    \cup [symbol : Symbols, quantity : {RInt(8)}, tag : {NoTag}]

TargetLists == SeqsUpTo(Targets, MaxTargets)

\* config["current_prices"]: a symbol either has its quote or none; 0 stands for a
\* symbol without a price (current_prices.get(symbol, 0.0)).  The quote of the first
\* symbol divides the capped notional of the risk gate, that of the second does not.
Quote(symbol) == IF symbol = 1 THEN RInt(25) ELSE RInt(30)

PriceMaps ==
    { [s \in Symbols |-> IF s \in priced THEN Quote(s) ELSE Zero] : priced \in SUBSET Symbols }

\* portfolio_state["equity"]
Equities == {RInt(-1000), Zero, RInt(1000)}

\* config["quant_scorecard"][symbol]["metrics"]["altman_z"]: 0 stands for a missing
\* entry (metrics.get("altman_z", 0.0)).
Scorecards == [Symbols -> {Zero, R(12, 10), R(18, 10), R(35, 10)}]

\* portfolio_state["positions"]: symbols may be absent
Holdings == {[long |-> 3, short |-> 0], [long |-> 0, short |-> 3], [long |-> 20, short |-> 0]}
PositionMaps == UNION { [held -> Holdings] : held \in SUBSET Symbols }

-----------------------------------------------------------------------------
(* Construction of and assignment to the value types of contracts.py, next to   *)
(* the collection the insights are stored in                                    *)

new_Insight ==
    /\ Idle
    /\ UNCHANGED elsewhere
    /\ \E args \in InsightArgs :
            /\ last' = [op |-> "Insight", args |-> args,
                        raised |-> (Insight(args) = {}), instance |-> Insight(args)]
            /\ UNCHANGED <<active_insights, removed_symbols>>

\* The values a caller may try to assign to a field.
FieldValues(name) ==
    CASE name = "symbol" -> Symbols
      [] name = "source_model" -> Models
      [] name = "generated_time_utc" -> Times
      [] name = "period" -> {1, 2}
      [] name = "magnitude" -> {ModelMagnitude(m) : m \in Models}
      [] name = "confidence" -> {ModelConfidence(m) : m \in Models}
      [] name = "quantity" -> {Zero, RInt(8)}
      [] name = "tag" -> {"MVO Output", NoTag}

setattr ==
    /\ Idle
    /\ UNCHANGED elsewhere
    /\ \/ \E obj \in Insights :
            \E name \in DOMAIN obj : \E value \in FieldValues(name) :
              last' = [op |-> "setattr", class |-> "Insight", obj |-> obj, name |-> name,
                       value |-> value,
                       raised |-> SetAttr(Insight_frozen, obj, name, value).raised,
                       after |-> SetAttr(Insight_frozen, obj, name, value).obj]
       \/ \E obj \in Targets :
            \E name \in DOMAIN obj : \E value \in FieldValues(name) :
              last' = [op |-> "setattr", class |-> "PortfolioTarget", obj |-> obj,
                       name |-> name, value |-> value,
                       raised |-> SetAttr(PortfolioTarget_frozen, obj, name, value).raised,
                       after |-> SetAttr(PortfolioTarget_frozen, obj, name, value).obj]
    /\ UNCHANGED <<active_insights, removed_symbols>>

NextContracts ==
    new_Insight \/ setattr \/ add \/ remove_expired \/ clear \/ get_active_insights \/ ret

SpecContracts == InitColl /\ [][NextContracts]_vars

-----------------------------------------------------------------------------
(* graph/risk_management.py *)

max_concentration == R(1, 5)
min_altman_z == R(18, 10)

RiskContexts == [equity : Equities, current_prices : PriceMaps, quant_scorecard : Scorecards]

\* A plausible slip: a target without a price is flattened instead of passed through.
AdjustOne_ZeroUnpriced(target, context) ==
    LET z_score == context.quant_scorecard[target.symbol]
        vetoed  == IF RLt(z_score, min_altman_z) /\ z_score # Zero
                   THEN Zero ELSE target.quantity
        price   == context.current_prices[target.symbol]
        limit   == RMul(context.equity, max_concentration)
        capped  == IF ~RGt(price, Zero) THEN Zero
                   ELSE IF RGt(RAbs(RMul(vetoed, price)), limit)
                   THEN RInt(RFloorDiv(IF RGt(vetoed, Zero) THEN limit ELSE RNeg(limit), price))
                   ELSE vetoed
    IN  [symbol |-> target.symbol, quantity |-> capped, tag |-> target.tag]

\* A plausible slip: the veto tests for a score above the minimum instead of below.
AdjustOne_VetoInverted(target, context) ==
    LET z_score == context.quant_scorecard[target.symbol]
        vetoed  == IF RGt(z_score, min_altman_z) /\ z_score # Zero
                   THEN Zero ELSE target.quantity
        price   == context.current_prices[target.symbol]
        limit   == RMul(context.equity, max_concentration)
        capped  == IF RGt(price, Zero) /\ RGt(RAbs(RMul(vetoed, price)), limit)
                   THEN RInt(RFloorDiv(IF RGt(vetoed, Zero) THEN limit ELSE RNeg(limit), price))
                   ELSE vetoed
    IN  [symbol |-> target.symbol, quantity |-> capped, tag |-> target.tag]

\* The body of the loop of adjust_targets.
AdjustOne(target, context) ==
    LET z_score == context.quant_scorecard[target.symbol]
        vetoed  == IF RLt(z_score, min_altman_z) /\ z_score # Zero
                   THEN Zero ELSE target.quantity
        price   == context.current_prices[target.symbol]
        limit   == RMul(context.equity, max_concentration)
        capped  == IF RGt(price, Zero) /\ RGt(RAbs(RMul(vetoed, price)), limit)
                   THEN RInt(RFloorDiv(IF RGt(vetoed, Zero) THEN limit ELSE RNeg(limit), price))
                   ELSE vetoed
    IN  [symbol |-> target.symbol, quantity |-> capped, tag |-> target.tag]

\* A plausible slip: the adjusted target loses the tag of the input target.
AdjustTargets_DropTag(targets, context) ==
    [j \in 1..Len(targets) |-> [AdjustOne(targets[j], context) EXCEPT !.tag = NoTag]]

AdjustTargets(targets, context) ==
    [j \in 1..Len(targets) |-> AdjustOne(targets[j], context)]

\* The argument objects when adjust_targets returns: it reads target.symbol,
\* target.quantity, target.tag and the dictionaries of the context, appends to a list
\* of its own and assigns to nothing it was given.
AdjustedInputs(targets, context) == [targets |-> targets, context |-> context]

adjust_targets ==
    /\ Idle
    /\ UNCHANGED elsewhere
    /\ \E targets \in TargetLists, context \in RiskContexts :
            /\ last' = [op |-> "adjust_targets", targets |-> targets, context |-> context,
                        after |-> AdjustedInputs(targets, context),
                        result |-> AdjustTargets(targets, context)]
            /\ UNCHANGED <<active_insights, removed_symbols>>

NextRisk == adjust_targets \/ ret

SpecRisk == InitColl /\ [][NextRisk]_vars

-----------------------------------------------------------------------------
(* core/execution_planner.py *)

slippage_pct == R(5, 10000)

\* ExecutionPlanner(min_trade_value=...): the default 500 and a planner without a threshold
MinTradeValues == {Zero, RInt(500)}

ExecContexts == [positions : PositionMaps, current_prices : PriceMaps, min_trade_value : MinTradeValues]

CurrentQty(positions, symbol) ==
    IF symbol \in DOMAIN positions
    THEN RInt(positions[symbol].long - positions[symbol].short)
    ELSE Zero

\* A plausible slip: a trade exactly at the threshold is suppressed too.
ExecuteOne_SuppressAtThreshold(target, context) ==
    LET price       == context.current_prices[target.symbol]
        diff        == RSub(target.quantity, CurrentQty(context.positions, target.symbol))
        trade_value == RAbs(RMul(diff, price))
    IN  IF RLe(price, Zero) \/ RLe(trade_value, context.min_trade_value) THEN <<>>
        ELSE << [ticker |-> target.symbol,
                 action |-> IF RGt(diff, Zero) THEN "buy" ELSE "sell",
                 quantity |-> RAbs(diff), trade_value |-> trade_value,
                 cost_estimate |-> RMul(trade_value, slippage_pct),
                 reasoning |-> <<CurrentQty(context.positions, target.symbol),
                                 target.quantity, trade_value>>] >>

\* The body of the loop of execute: the orders (none or one) of one target.
ExecuteOne(target, context) ==
    LET price       == context.current_prices[target.symbol]
        current_qty == CurrentQty(context.positions, target.symbol)
        diff        == RSub(target.quantity, current_qty)
        trade_value == RAbs(RMul(diff, price))
        action      == IF RGt(diff, Zero) THEN "buy"
                       ELSE IF RLt(diff, Zero) THEN "sell" ELSE "hold"
    IN  IF RLe(price, Zero) THEN <<>>
        ELSE IF RLt(trade_value, context.min_trade_value) THEN <<>>
        ELSE << [ticker |-> target.symbol, action |-> action,
                 quantity |-> RAbs(diff), trade_value |-> trade_value,
                 cost_estimate |-> RMul(trade_value, slippage_pct),
                 reasoning |-> <<current_qty, target.quantity, trade_value>>] >>

RECURSIVE Execute(_, _)
Execute(targets, context) ==
    IF targets = <<>> THEN <<>>
    ELSE ExecuteOne(Head(targets), context) \o Execute(Tail(targets), context)

execute ==
    /\ Idle
    /\ UNCHANGED elsewhere
    /\ \E targets \in TargetLists, context \in ExecContexts :
            /\ last' = [op |-> "execute", targets |-> targets, context |-> context,
                        result |-> Execute(targets, context)]
            /\ UNCHANGED <<active_insights, removed_symbols>>

NextExec == execute \/ ret

SpecExec == InitColl /\ [][NextExec]_vars

-----------------------------------------------------------------------------
(* core/execution_planner.py: calls on one ExecutionPlanner that lives on *)

\* The targets and contexts the long-lived planner is called with.
PlannerTargets ==
    { t \in Targets : t.tag = "MVO Output" /\ t.quantity \in {RInt(-20), RInt(3), RInt(20)} }

PlannerTargetLists == SeqsUpTo(PlannerTargets, 2)

PlannerContexts ==
    [positions : { p \in PositionMaps : DOMAIN p \subseteq {1} /\ \A s \in DOMAIN p : p[s].long = 3 },
     current_prices : { pm \in PriceMaps : pm[2] # Zero }]

\* The planner's view of a call: the context and its own min_trade_value.
PlannerView(self, context) ==
    [positions |-> context.positions, current_prices |-> context.current_prices,
     min_trade_value |-> self.min_trade_value]

\* A plausible slip: the planner adapts its threshold to the trades it planned (the
\* value of the last order becomes the new min_trade_value).
ExecuteCall_AdaptsThreshold(self, targets, context) ==
    LET orders == Execute(targets, PlannerView(self, context))
    IN  [result  |-> orders,
         self    |-> IF orders = <<>> THEN self
                     ELSE [self EXCEPT !.min_trade_value = orders[Len(orders)].trade_value],
         targets |-> targets,
         context |-> context]

\* execute on the instance self: the orders returned, and the instance and the
\* argument objects as the call leaves them.  The body reads self.min_trade_value,
\* self.slippage_pct, the targets and the dictionaries of the context; it appends to a
\* list of its own and assigns to nothing else.
ExecuteCall(self, targets, context) ==
    [result  |-> Execute(targets, PlannerView(self, context)),
     self    |-> self,
     targets |-> targets,
     context |-> context]

planner_execute ==
    /\ last.op = "idle"
    /\ \E targets \in PlannerTargetLists, context \in PlannerContexts :
        \E call \in {ExecuteCall(planner, targets, context)} :
          /\ planner' = call.self
          /\ last' = [op |-> "planner_execute", targets |-> targets, context |-> context,
                      after |-> [targets |-> call.targets, context |-> call.context],
                      result |-> call.result]
    /\ UNCHANGED <<active_insights, removed_symbols, prev, rng, context_state,
                   thread_state, trading_state>>

\* The caller takes the result and keeps the call in mind.
remember ==
    /\ last.op # "idle"
    /\ prev' = last
    /\ last' = [op |-> "idle"]
    /\ UNCHANGED <<active_insights, removed_symbols, planner, rng, context_state,
                   thread_state, trading_state>>

NextPlanner == planner_execute \/ remember \/ ret

SpecPlanner == InitColl /\ [][NextPlanner]_vars

-----------------------------------------------------------------------------
(* core/portfolio_manager.py *)

target_return == R(2, 100)

\* Longest list of new insights handed to one create_targets call.
MaxNew == 1

NewInsightLists == SeqsUpTo(Insights, MaxNew)

\* sorted(list(set(...))): the symbols in ascending order
RECURSIVE Sorted(_)
Sorted(S) ==
    IF S = {} THEN <<>>
    ELSE LET least == CHOOSE x \in S : \A y \in S : x <= y
         IN  <<least>> \o Sorted(S \ {least})

RECURSIVE RSumOver(_, _)
RSumOver(f, S) ==
    IF S = {} THEN Zero
    ELSE LET x == CHOOSE y \in S : TRUE
         IN  RAdd(f[x], RSumOver(f, S \ {x}))

\* mu[i]: the mean magnitude of the active insights of symbols[i]
ExpectedReturns(symbols, active) ==
    [j \in 1..Len(symbols) |->
        LET symbol_insights == { ins \in active : ins.symbol = symbols[j] }
        IN  RDiv(RSumOver([ins \in symbol_insights |-> ins.magnitude], symbol_insights),
                 RInt(Cardinality(symbol_insights)))]

\* A plausible slip: the guess is a vector of ones, which is within the bounds but
\* does not sum to 1 for more than one symbol.
EqualWeights_Ones(n) == [j \in 1..n |-> RInt(1)]

\* init_guess and the weights of _create_safe_fallback_targets
EqualWeights(n) == [j \in 1..n |-> R(1, n)]

\* The weights scipy's minimize may report with res.success: within the bounds
\* [-1, 1] (here on a grid of halves), summing to 1 and reaching target_return.
WeightGrid == {RInt(-1), R(-1, 2), Zero, R(1, 2), RInt(1)}

Feasible(n, mu) ==
    { w \in [1..n -> WeightGrid] :
        /\ RSumOver(w, 1..n) = RInt(1)
        /\ RLe(target_return, RSumOver([j \in 1..n |-> RMul(w[j], mu[j])], 1..n)) }

\* Feasible, tabulated once over the expected-return vectors the insights can produce.
MuValues ==
    { RDiv(RSumOver([m \in ms |-> ModelMagnitude(m)], ms), RInt(Cardinality(ms))) :
        ms \in (SUBSET Models) \ {{}} }

FeasibleWeights ==
    [mu \in UNION { [1..n -> MuValues] : n \in 1..Cardinality(Symbols) } |->
        Feasible(Len(mu), mu)]

\* What context.get_history hands to _get_returns_matrix: nothing (None), an empty
\* frame, a frame without the column of some requested symbol, a frame too short to
\* yield one row of returns, a usable frame.
Histories == {"none", "empty", "missing_column", "short", "ok"}

\* A plausible slip: the weights are taken from the solver's result whether it
\* succeeded or not, so a failed solve hands on its last iterate.
Solutions_KeepLastIterate(n, mu, history) ==
    IF history \in {"missing_column", "short"}
    THEN {[path |-> "fallback", weights |-> EqualWeights(n)]}
    ELSE { [path |-> "not_converged", weights |-> w] : w \in [1..n -> {Zero, RInt(1)}] }
         \cup { [path |-> "solved", weights |-> w] : w \in FeasibleWeights[mu] }

\* How the numeric part of create_targets may end.  _get_returns_matrix replaces an
\* absent or empty history by seeded synthetic returns, which are then optimised like
\* real ones; a missing column raises inside the try and returns without rows make
\* returns_df empty, and both end in the equal-weight fallback.  The solver either
\* reports success with weights meeting its constraints or fails (init_guess).
Solutions(n, mu, history) ==
    IF history \in {"missing_column", "short"}
    THEN {[path |-> "fallback", weights |-> EqualWeights(n)]}
    ELSE {[path |-> "not_converged", weights |-> EqualWeights(n)]}
         \cup { [path |-> "solved", weights |-> w] : w \in FeasibleWeights[mu] }

\* A plausible slip: the weight is taken at the index of the target being built, which
\* falls behind the symbol index once a symbol without a price was skipped.
WeightsToTargets_OutputIndex(symbols, weights, context) ==
    LET RECURSIVE Build(_, _)
        Build(j, out) ==
            IF j > Len(symbols) THEN out
            ELSE LET price == context.current_prices[symbols[j]]
                 IN  IF RLe(price, Zero) THEN Build(j + 1, out)
                     ELSE Build(j + 1, Append(out,
                            [symbol |-> symbols[j],
                             quantity |-> RDiv(RMul(context.equity, weights[Len(out) + 1]), price),
                             tag |-> "MVO Output"]))
    IN  Build(1, <<>>)

\* A plausible slip: the default equity is used instead of the portfolio's.
WeightsToTargets_DefaultEquity(symbols, weights, context) ==
    LET RECURSIVE Build(_, _)
        Build(j, out) ==
            IF j > Len(symbols) THEN out
            ELSE LET price == context.current_prices[symbols[j]]
                 IN  IF RLe(price, Zero) THEN Build(j + 1, out)
                     ELSE Build(j + 1, Append(out,
                            [symbol |-> symbols[j],
                             quantity |-> RDiv(RMul(RInt(100000), weights[j]), price),
                             tag |-> "MVO Output"]))
    IN  Build(1, <<>>)

\* A plausible slip: the loop stops at the first symbol without a price instead of
\* going on with the next symbol.
WeightsToTargets_StopAtMissingPrice(symbols, weights, context) ==
    LET RECURSIVE Build(_, _)
        Build(j, out) ==
            IF j > Len(symbols) THEN out
            ELSE LET price == context.current_prices[symbols[j]]
                 IN  IF RLe(price, Zero) THEN out
                     ELSE Build(j + 1, Append(out,
                            [symbol |-> symbols[j],
                             quantity |-> RDiv(RMul(context.equity, weights[j]), price),
                             tag |-> "MVO Output"]))
    IN  Build(1, <<>>)

\* _weights_to_targets
WeightsToTargets(symbols, weights, context) ==
    LET RECURSIVE Build(_, _)
        Build(j, out) ==
            IF j > Len(symbols) THEN out
            ELSE LET price == context.current_prices[symbols[j]]
                 IN  IF RLe(price, Zero) THEN Build(j + 1, out)
                     ELSE Build(j + 1, Append(out,
                            [symbol |-> symbols[j],
                             quantity |-> RDiv(RMul(context.equity, weights[j]), price),
                             tag |-> "MVO Output"]))
    IN  Build(1, <<>>)

\* A plausible slip: the removed symbols are purged before the new insights are fed,
\* so an insight supplied in the same call for a removed symbol stays.
Lifecycle_ClearBeforeAdd(store, new_insights, utc_time, removed) ==
    RemoveExpired(AddAll(Clear(store, removed), new_insights), utc_time)

\* The collection after the lifecycle step of create_targets.
Lifecycle(store, new_insights, utc_time, removed) ==
    LET fed == RemoveExpired(AddAll(store, new_insights), utc_time)
    IN  IF removed # {} THEN Clear(fed, removed) ELSE fed

\* What the lifecycle step of create_targets can make of the collection, over the
\* lists of new insights: the collection it leaves and the entries its clear deleted.
Lifecycles(store, utc_time, removed) ==
    { [store   |-> Lifecycle(store, new_insights, utc_time, removed),
       cleared |-> RemoveExpired(AddAll(store, new_insights), utc_time)
                       \ Lifecycle(store, new_insights, utc_time, removed)] :
        new_insights \in NewInsightLists }

\* (Intermediate values are bound with \E x \in {e} so that each is computed once.)
create_targets ==
    /\ Idle
    /\ UNCHANGED elsewhere
    /\ \E utc_time \in Times :
        \E fed \in Lifecycles(active_insights, utc_time, removed_symbols) :
        \E active \in {GetActiveInsights(fed.store, utc_time)} :
        \E symbols \in {Sorted({ i.symbol : i \in active })} :
          /\ active_insights' = fed.store
          /\ removed_symbols' = {}
          /\ IF active = {}
             THEN \E equity \in Equities, current_prices \in PriceMaps :
                    last' = [op |-> "create_targets", removed |-> removed_symbols,
                             cleared |-> fed.cleared,
                             context |-> [time |-> utc_time, equity |-> equity,
                                          current_prices |-> current_prices],
                             history |-> "unused",
                             path |-> "empty", symbols |-> <<>>, weights |-> <<>>,
                             result |-> <<>>]
             ELSE \E mu \in {ExpectedReturns(symbols, active)}, history \in Histories :
                    \E sol \in Solutions(Len(symbols), mu, history) :
                    \E equity \in Equities, current_prices \in PriceMaps :
                    \E context \in {[time |-> utc_time, equity |-> equity,
                                      current_prices |-> current_prices]} :
                      last' = [op |-> "create_targets", removed |-> removed_symbols,
                               cleared |-> fed.cleared, context |-> context,
                               history |-> history,
                               path |-> sol.path, symbols |-> symbols,
                               weights |-> sol.weights,
                               result |-> WeightsToTargets(symbols, sol.weights, context)]

\* on_securities_changed: _removed_symbols is only tested for emptiness and membership,
\* so the list is kept as the set of its elements.
on_securities_changed ==
    /\ Idle
    /\ UNCHANGED elsewhere
    /\ \E removed \in SUBSET Symbols :
          /\ removed_symbols' = removed_symbols \cup removed
          /\ last' = [op |-> "on_securities_changed", removed |-> removed]
          /\ UNCHANGED active_insights

NextPCM == create_targets \/ on_securities_changed \/ ret

SpecPCM == InitColl /\ [][NextPCM]_vars

-----------------------------------------------------------------------------
(* core/portfolio_manager.py and data/market_data.py: the returns matrix and   *)
(* numpy's process-wide random generator                                       *)

\* MeanVarianceOptimizationPortfolioConstructionModel(lookback=63)
lookback == 63

\* Most values other code draws from the generator after seeding it.
MaxDraws == 3

\* The generator's state: the seed it was last seeded with (0: the seed numpy takes
\* from the operating system at import) and the number of values drawn since.
np_random_seed_state(seed) == [seed |-> seed, drawn |-> 0]

\* The state after drawing count values.
Drawn(state, count) == [state EXCEPT !.drawn = @ + count]

\* The values a draw of count values yields: determined by the state it starts from.
Sample(state, count) == [seed |-> state.seed, from |-> state.drawn, count |-> count]

\* sum(ord(c) for c in symbol), the tickers being "A", "B", ...
SymbolSeed(symbol) == 64 + symbol

\* data.market_data.get_history: for each symbol in turn it seeds the process-wide
\* generator with the symbol's seed and draws the start price and one return per
\* day; the generator is left where the last symbol's draws ended.
RECURSIVE MarketDataGetHistory(_, _, _)
MarketDataGetHistory(state, symbols, lookback_days) ==
    IF symbols = <<>> THEN [rng |-> state, columns |-> <<>>]
    ELSE LET seeded == np_random_seed_state(SymbolSeed(Head(symbols)))
             days   == lookback_days + 30
             rest   == MarketDataGetHistory(Drawn(seeded, 1 + days), Tail(symbols),
                                            lookback_days)
         IN  [rng |-> rest.rng, columns |-> <<Sample(seeded, 1 + days)>> \o rest.columns]

\* What stands behind context.get_history: the accessor of AlgorithmContext, which
\* calls data.market_data.get_history, or an accessor that has nothing to return
\* (None, or an empty frame).
Accessors == {"market_data", "none", "empty"}

\* _get_returns_matrix: the returns it hands back and the generator as it leaves it.
\* The synthetic branch saves the generator's state, seeds it with 42, draws
\* lookback * len(symbols) values and restores the saved state.
GetReturnsMatrix(state, symbols, accessor) ==
    IF accessor = "market_data"
    THEN LET history == MarketDataGetHistory(state, symbols, lookback)
         IN  [rng |-> history.rng,
              returns |-> [kind |-> "history", values |-> history.columns]]
    ELSE LET saved  == state
             seeded == np_random_seed_state(42)
             noise  == Sample(seeded, lookback * Len(symbols))
         IN  [rng |-> saved,
              returns |-> [kind |-> "synthetic", values |-> <<noise>>]]

\* create_targets reaches the generator through this call only (line 54).
get_returns_matrix ==
    /\ last.op = "idle"
    /\ \E S \in (SUBSET Symbols) \ {{}}, accessor \in Accessors :
        \E call \in {GetReturnsMatrix(rng, Sorted(S), accessor)} :
          /\ rng' = call.rng
          /\ last' = [op |-> "get_returns_matrix", symbols |-> Sorted(S),
                      accessor |-> accessor, returns |-> call.returns]
    /\ UNCHANGED <<active_insights, removed_symbols, planner_state, context_state,
                   thread_state, trading_state>>

\* Other code of the process seeds the generator (np.random.seed(42) of the tests)...
np_random_seed ==
    /\ last.op = "idle"
    /\ \E seed \in {7, 42, 2026} :
          /\ rng' = np_random_seed_state(seed)
          /\ last' = [op |-> "np_random_seed", seed |-> seed]
    /\ UNCHANGED <<active_insights, removed_symbols, planner_state, context_state,
                   thread_state, trading_state>>

\* ... and draws from it.
np_random_random ==
    /\ last.op = "idle"
    /\ rng.drawn < MaxDraws
    /\ rng' = Drawn(rng, 1)
    /\ last' = [op |-> "np_random_random", value |-> Sample(rng, 1)]
    /\ UNCHANGED <<active_insights, removed_symbols, planner_state, context_state,
                   thread_state, trading_state>>

NextReturns == get_returns_matrix \/ np_random_seed \/ np_random_random \/ ret

SpecReturns == InitColl /\ [][NextReturns]_vars

-----------------------------------------------------------------------------
(* core/portfolio_manager.py: create_targets called twice in a row with the same *)
(* arguments                                                                     *)

\* The contexts of the repeated call.
RepeatContexts == [time : Times, equity : {RInt(1000)}, current_prices : PriceMaps]

\* The lists of new insights of the repeated call: none, or one insight.
RepeatNewInsights == {<<>>} \cup { <<i>> : i \in Insights }

\* The ways one create_targets call can go from the given collection and pending
\* removals: the collection it leaves and what it returns, for each result the
\* solver may report.
CreateTargetsCalls(store, removed, new_insights, context, history) ==
    LET fed     == Lifecycle(store, new_insights, context.time, removed)
        active  == GetActiveInsights(fed, context.time)
        symbols == Sorted({ i.symbol : i \in active })
    IN  IF active = {}
        THEN {[store |-> fed, path |-> "empty", symbols |-> <<>>, weights |-> <<>>,
               result |-> <<>>]}
        ELSE { [store |-> fed, path |-> sol.path, symbols |-> symbols,
                weights |-> sol.weights,
                result |-> WeightsToTargets(symbols, sol.weights, context)] :
                 sol \in Solutions(Len(symbols), ExpectedReturns(symbols, active), history) }

create_targets_first ==
    /\ last.op = "idle"
    /\ \E new_insights \in RepeatNewInsights, context \in RepeatContexts,
          history \in {"none", "ok"} :
        \E call \in CreateTargetsCalls(active_insights, removed_symbols, new_insights,
                                       context, history) :
          /\ active_insights' = call.store
          /\ removed_symbols' = {}
          /\ last' = [op |-> "create_targets_first", new_insights |-> new_insights,
                      context |-> context, history |-> history,
                      removed |-> removed_symbols, call |-> call]
    /\ UNCHANGED elsewhere

\* The caller repeats the call it just made, with the same new_insights and context
\* (and the same history behind it).  The solver is a deterministic routine: handed
\* the problem of the first call again, it reports the same result.
create_targets_again ==
    /\ last.op = "create_targets_first"
    /\ \E call \in CreateTargetsCalls(active_insights, removed_symbols, last.new_insights,
                                       last.context, last.history) :
          /\ GetActiveInsights(call.store, last.context.time)
                = GetActiveInsights(last.call.store, last.context.time)
                  => (call.path = last.call.path /\ call.weights = last.call.weights)
          /\ active_insights' = call.store
          /\ removed_symbols' = {}
          /\ last' = [op |-> "create_targets_again", new_insights |-> last.new_insights,
                      context |-> last.context, history |-> last.history,
                      removed |-> removed_symbols, first |-> last, call |-> call]
    /\ UNCHANGED elsewhere

NextRepeat == create_targets_first \/ create_targets_again \/ on_securities_changed \/ ret

SpecRepeat == InitColl /\ [][NextRepeat]_vars

-----------------------------------------------------------------------------
(* lean_bridge/pipeline.py: one cycle of the three stages on one context *)

\* The contexts of a cycle: prices (present or missing), scorecard entries (absent
\* or distressed), holdings (absent or long) and the planner's threshold.
CycleScorecards == { sc \in Scorecards : sc[1] = Zero /\ sc[2] \in {Zero, R(12, 10)} }

CyclePositions ==
    { p \in PositionMaps : DOMAIN p \subseteq {2} /\ \A s \in DOMAIN p : p[s].long = 3 }

CycleContexts ==
    [equity : {RInt(1000)}, current_prices : PriceMaps, quant_scorecard : CycleScorecards,
     positions : CyclePositions, min_trade_value : MinTradeValues]

\* The list handed to create_targets stands for context.active_insights after the
\* alpha models ran.  (Each stage is computed once per choice of what it reads.)
run_lean_pipeline ==
    /\ Idle
    /\ UNCHANGED elsewhere
    /\ \E utc_time \in Times :
        \E fed \in Lifecycles(active_insights, utc_time, removed_symbols) :
        \E active \in {GetActiveInsights(fed.store, utc_time)} :
        \E symbols \in {Sorted({ i.symbol : i \in active })} :
          /\ active_insights' = fed.store
          /\ removed_symbols' = {}
          /\ IF active = {}
             THEN \E context \in CycleContexts :
                    last' = [op |-> "run_lean_pipeline", time |-> utc_time,
                             context |-> context, history |-> "unused", path |-> "empty",
                             symbols |-> <<>>, weights |-> <<>>, targets |-> <<>>,
                             adjusted_targets |-> AdjustTargets(<<>>, context),
                             result |-> Execute(AdjustTargets(<<>>, context), context)]
             ELSE \E mu \in {ExpectedReturns(symbols, active)}, history \in Histories :
                    \E sol \in Solutions(Len(symbols), mu, history) :
                    \E priced \in [equity : {RInt(1000)}, current_prices : PriceMaps] :
                    \E targets \in {WeightsToTargets(symbols, sol.weights, priced)} :
                    \E quant_scorecard \in CycleScorecards :
                    \E adjusted_targets \in
                          {AdjustTargets(targets, [equity |-> priced.equity,
                                                   current_prices |-> priced.current_prices,
                                                   quant_scorecard |-> quant_scorecard])} :
                    \E positions \in CyclePositions, min_trade_value \in MinTradeValues :
                    \E context \in {[equity |-> priced.equity,
                                      current_prices |-> priced.current_prices,
                                      quant_scorecard |-> quant_scorecard,
                                      positions |-> positions,
                                      min_trade_value |-> min_trade_value]} :
                      last' = [op |-> "run_lean_pipeline", time |-> utc_time,
                               context |-> context, history |-> history,
                               path |-> sol.path, symbols |-> symbols,
                               weights |-> sol.weights, targets |-> targets,
                               adjusted_targets |-> adjusted_targets,
                               result |-> Execute(adjusted_targets, context)]

NextCycle == run_lean_pipeline \/ ret

SpecCycle == InitColl /\ [][NextCycle]_vars

-----------------------------------------------------------------------------
(* lean_bridge/pipeline.py and lean_bridge/context.py: cycles on one context,   *)
(* whose insights list persists, and one portfolio construction model           *)

\* Longest AlgorithmContext.insights a cycle is run with.
MaxContext == 2

\* What the alpha models emit in a cycle: nothing, or one insight of the first model.
AlphaInsights ==
    { i \in Insights : i.source_model = "M1"
                          /\ <<i.generated_time_utc, i.period>> \in {<<0, 2>>, <<1, 1>>} }

AlphaOutputs == {<<>>} \cup { <<i>> : i \in AlphaInsights }

\* context.add_insights(new_insights); context.clear_expired_insights(utc_time)
AccumulateAndPurge(held, new_insights, utc_time) ==
    LET Valid(i) == ~is_expired(i, utc_time)
    IN  SelectSeq(held \o new_insights, Valid)

\* The context.active_insights property
ContextActiveInsights(held, utc_time) ==
    LET Valid(i) == ~is_expired(i, utc_time)
    IN  SelectSeq(held, Valid)

\* The rest of the context of a cycle: equity (a margin account may be under water),
\* prices, scorecard entries (absent or distressed) and holdings.
PipelineContexts ==
    [equity : {RInt(-1000), RInt(1000)},
     current_prices : { pm \in PriceMaps : pm[2] # Zero },
     quant_scorecard : CycleScorecards,
     positions : CyclePositions,
     min_trade_value : MinTradeValues]

pipeline_cycle ==
    /\ last.op = "idle"
    /\ \E new_insights \in AlphaOutputs, utc_time \in Times :
        \E held \in {AccumulateAndPurge(context_insights, new_insights, utc_time)} :
          /\ Len(held) <= MaxContext
          /\ context_insights' = held
          /\ \E context \in PipelineContexts, history \in {"ok", "missing_column"} :
             \E call \in CreateTargetsCalls(active_insights, removed_symbols,
                                            ContextActiveInsights(held, utc_time),
                                            [time |-> utc_time, equity |-> context.equity,
                                             current_prices |-> context.current_prices],
                                            history) :
             \E targets \in {call.result} :
             \E adjusted_targets \in {AdjustTargets(targets, context)} :
               /\ active_insights' = call.store
               /\ removed_symbols' = {}
               /\ purged' = (purged \cup removed_symbols)
                               \ { new_insights[j].symbol : j \in 1..Len(new_insights) }
               /\ last' = [op |-> "pipeline_cycle", time |-> utc_time,
                           new_insights |-> new_insights, context |-> context,
                           targets |-> targets, adjusted_targets |-> adjusted_targets,
                           result |-> Execute(adjusted_targets, context)]
    /\ UNCHANGED <<planner_state, rng, thread_state, trading_state>>

NextPipeline == pipeline_cycle \/ on_securities_changed \/ ret

SpecPipeline == InitColl /\ [][NextPipeline]_vars

-----------------------------------------------------------------------------
(* portfolio_manager.py: create_targets on one thread, on_securities_changed on  *)
(* another, on the same model.  The code takes no lock; a thread switch can fall *)
(* between any two statements, and between the attribute load and the call of    *)
(* self._removed_symbols.extend(...).                                            *)

\* line 26: self.insight_collection.add(new_insights)
ct_add ==
    /\ last.op = "idle"
    /\ pc.create_targets = "idle"
    /\ \E new_insights \in AlphaOutputs, utc_time \in Times :
          /\ active_insights' = AddAll(active_insights, new_insights)
          /\ pc' = [pc EXCEPT !.create_targets = "remove_expired", !.time = utc_time]
    /\ pending' = pending \cap active_insights'
    /\ UNCHANGED <<removed_symbols, last, planner_state, rng, context_state, trading_state>>

\* line 27: self.insight_collection.remove_expired(context.time)
ct_remove_expired ==
    /\ last.op = "idle"
    /\ pc.create_targets = "remove_expired"
    /\ active_insights' = RemoveExpired(active_insights, pc.time)
    /\ pending' = pending \cap active_insights'
    /\ pc' = [pc EXCEPT !.create_targets = "test"]
    /\ UNCHANGED <<removed_symbols, last, planner_state, rng, context_state, trading_state>>

\* line 29: if self._removed_symbols:
ct_test ==
    /\ last.op = "idle"
    /\ pc.create_targets = "test"
    /\ pc' = [pc EXCEPT !.create_targets = IF removed_symbols # {} THEN "clear" ELSE "rest"]
    /\ UNCHANGED <<active_insights, removed_symbols, pending, last, planner_state, rng,
                   context_state, trading_state>>

\* line 30: self.insight_collection.clear(self._removed_symbols)
ct_clear ==
    /\ last.op = "idle"
    /\ pc.create_targets = "clear"
    /\ active_insights' = Clear(active_insights, removed_symbols)
    /\ pending' = pending \cap active_insights'
    /\ pc' = [pc EXCEPT !.create_targets = "rebind"]
    /\ UNCHANGED <<removed_symbols, last, planner_state, rng, context_state, trading_state>>

\* line 31: self._removed_symbols = [] binds the attribute to a new list; a thread that
\* loaded the attribute before holds the old list from now on.
ct_rebind ==
    /\ last.op = "idle"
    /\ pc.create_targets = "rebind"
    /\ removed_symbols' = {}
    /\ pc' = [pc EXCEPT !.create_targets = "rest",
                        !.stale = (pc.on_securities_changed = "loaded")]
    /\ UNCHANGED <<active_insights, pending, last, planner_state, rng, context_state,
                   trading_state>>

\* lines 33-130: the optimisation reads the collection and the context and writes
\* neither the collection nor _removed_symbols (its result is SpecPCM's subject).
ct_rest ==
    /\ last.op = "idle"
    /\ pc.create_targets = "rest"
    /\ pc' = [pc EXCEPT !.create_targets = "idle", !.time = 0]
    /\ UNCHANGED <<active_insights, removed_symbols, pending, last, planner_state, rng,
                   context_state, trading_state>>

\* line 133, first half: self._removed_symbols is loaded, changes.get("removed", [])
\* is evaluated.
osc_load ==
    /\ last.op = "idle"
    /\ pc.on_securities_changed = "idle"
    /\ \E removed \in SUBSET Symbols :
          pc' = [pc EXCEPT !.on_securities_changed = "loaded", !.removed = removed,
                           !.stale = FALSE]
    /\ UNCHANGED <<active_insights, removed_symbols, pending, last, planner_state, rng,
                   context_state, trading_state>>

\* The content of the list bound to self._removed_symbols after the loaded list was
\* extended: the same list unless the attribute was bound anew in between.
osc_extend_target(stale, bound, removed) == IF stale THEN bound ELSE bound \cup removed

\* line 133, second half: .extend(...) on the list that was loaded.
osc_extend ==
    /\ last.op = "idle"
    /\ pc.on_securities_changed = "loaded"
    /\ removed_symbols' = osc_extend_target(pc.stale, removed_symbols, pc.removed)
    /\ pending' = pending \cup { e \in active_insights : e.symbol \in pc.removed }
    /\ pc' = [pc EXCEPT !.on_securities_changed = "idle", !.removed = {}, !.stale = FALSE]
    /\ UNCHANGED <<active_insights, last, planner_state, rng, context_state, trading_state>>

NextThreads ==
    \/ ct_add \/ ct_remove_expired \/ ct_test \/ ct_clear \/ ct_rebind \/ ct_rest
    \/ osc_load \/ osc_extend

SpecThreads == InitColl /\ [][NextThreads]_vars

-----------------------------------------------------------------------------
(* services/trading_service.py: TradingService over the Trade table and a        *)
(* brokerage provider                                                            *)

MaxTrades == 2
MaxSubmissions == 3

TerminalStatuses == {"EXECUTED", "REJECTED", "FAILED"}

\* What provider.submit_order does with one order: the brokerage fills it at once,
\* accepts it without filling it yet (every Order.status other than FILLED), the
\* request fails before the brokerage has the order, or the brokerage has the order
\* and the reply cannot be mapped to an Order (_map_order raises).
OrderOutcomes == {"filled", "accepted", "raises", "raises_after_post"}

Approvers == {"SYSTEM", "user"}

\* Trade(..., status="PENDING_APPROVAL"): the columns the three methods read or write.
NewTrade ==
    [status |-> "PENDING_APPROVAL", manual_approval_timestamp |-> FALSE,
     approved_by |-> "none", brokerage_order_id |-> 0, error_message |-> "none"]

\* execute_trade on an existing row: the row afterwards and whether the provider
\* received an order.
ExecuteTrade(self, trade, approver, outcome, order_id) ==
    LET approved == IF self.mode = "live" /\ ~trade.manual_approval_timestamp
                    THEN [trade EXCEPT !.manual_approval_timestamp = TRUE,
                                       !.approved_by = approver]
                    ELSE trade
    IN  IF trade.status \in {"EXECUTED", "REJECTED", "FAILED"}
        THEN [trade |-> trade, posted |-> FALSE]
        ELSE IF ~self.provider
        THEN [trade |-> [approved EXCEPT !.status = "FAILED",
                                          !.error_message = "No trading provider configured"],
              posted |-> FALSE]
        ELSE IF outcome \in {"raises", "raises_after_post"}
        THEN [trade |-> [approved EXCEPT !.status = "FAILED", !.error_message = "exception"],
              posted |-> (outcome = "raises_after_post")]
        ELSE [trade |-> [approved EXCEPT
                            !.status = IF outcome = "filled" THEN "EXECUTED" ELSE "SUBMITTED",
                            !.brokerage_order_id = order_id],
              posted |-> TRUE]

\* TradingService(db): the mode and the credentials come from the environment.
new_TradingService ==
    /\ last.op = "idle"
    /\ service.mode = "none"
    /\ \E mode \in {"paper", "live"}, provider \in BOOLEAN :
          service' = [mode |-> mode, provider |-> provider]
    /\ UNCHANGED <<active_insights, removed_symbols, last, planner_state, rng, context_state,
                   thread_state, trades, submissions>>

create_trade_request ==
    /\ last.op = "idle"
    /\ service.mode # "none"
    /\ Len(trades) < MaxTrades
    /\ \E outcome \in OrderOutcomes :
        \E id \in {Len(trades) + 1} :
        \E call \in {IF service.mode = "paper"
                      THEN ExecuteTrade(service, NewTrade, "SYSTEM", outcome,
                                        Len(submissions) + 1)
                      ELSE [trade |-> NewTrade, posted |-> FALSE]} :
          /\ call.posted => Len(submissions) < MaxSubmissions
          /\ trades' = Append(trades, call.trade)
          /\ submissions' = IF call.posted THEN Append(submissions, id) ELSE submissions
    /\ UNCHANGED <<active_insights, removed_symbols, last, planner_state, rng, context_state,
                   thread_state, service>>

\* A trade_id with no row raises ValueError and changes nothing.
execute_trade ==
    /\ last.op = "idle"
    /\ service.mode # "none"
    /\ \E trade_id \in 1..MaxTrades, approver \in Approvers, outcome \in OrderOutcomes :
          IF trade_id \notin DOMAIN trades
          THEN UNCHANGED <<trades, submissions>>
          ELSE \E call \in {ExecuteTrade(service, trades[trade_id], approver, outcome,
                                          Len(submissions) + 1)} :
                 /\ call.posted => Len(submissions) < MaxSubmissions
                 /\ trades' = [trades EXCEPT ![trade_id] = call.trade]
                 /\ submissions' = IF call.posted THEN Append(submissions, trade_id)
                                   ELSE submissions
    /\ UNCHANGED <<active_insights, removed_symbols, last, planner_state, rng, context_state,
                   thread_state, service>>

reject_trade ==
    /\ last.op = "idle"
    /\ service.mode # "none"
    /\ \E trade_id \in 1..MaxTrades, user \in {"user"} :
          trades' = IF trade_id \in DOMAIN trades
                       /\ trades[trade_id].status = "PENDING_APPROVAL"
                    THEN [trades EXCEPT ![trade_id].status = "REJECTED",
                                        ![trade_id].approved_by = user]
                    ELSE trades
    /\ UNCHANGED <<active_insights, removed_symbols, last, planner_state, rng, context_state,
                   thread_state, service, submissions>>

NextTrading == new_TradingService \/ create_trade_request \/ execute_trade \/ reject_trade

SpecTrading == InitColl /\ [][NextTrading]_vars

-----------------------------------------------------------------------------
(* test_lean_invariants.py: the end-to-end scenario, create_targets ->          *)
(* adjust_targets -> execute on one context                                     *)

\* The tickers of the scenario in ascending order: AAPL, NVDA, TSLA.
AAPL == 1
NVDA == 2
TSLA == 3

ScenarioSymbols == {AAPL, NVDA, TSLA}

\* Insight.price(symbol, timedelta(days=1), direction, magnitude, confidence, model)
ScenarioInsightArgs ==
    << [symbol |-> AAPL, source_model |-> "A1", generated_time_utc |-> 0, period |-> 1,
        magnitude |-> R(5, 100), confidence |-> R(8, 10)],
       [symbol |-> NVDA, source_model |-> "A2", generated_time_utc |-> 0, period |-> 1,
        magnitude |-> R(-2, 100), confidence |-> R(7, 10)],
       [symbol |-> TSLA, source_model |-> "A3", generated_time_utc |-> 0, period |-> 1,
        magnitude |-> R(3, 100), confidence |-> R(6, 10)] >>

\* The list of the insights constructed (all three pass validation).
ScenarioInsights ==
    [j \in 1..Len(ScenarioInsightArgs) |-> CHOOSE i \in Insight(ScenarioInsightArgs[j]) : TRUE]

ScenarioContext ==
    [time            |-> 0,
     equity          |-> RInt(100000),
     positions       |-> [s \in {AAPL} |-> [long |-> 100, short |-> 0]],
     current_prices  |-> [s \in ScenarioSymbols |->
                            IF s = AAPL THEN RInt(150)
                            ELSE IF s = TSLA THEN RInt(200) ELSE RInt(500)],
     quant_scorecard |-> [s \in ScenarioSymbols |->
                            IF s = AAPL THEN R(35, 10)
                            ELSE IF s = TSLA THEN R(12, 10) ELSE RInt(4)],
     min_trade_value |-> RInt(500)]

\* The weights the solver may report with res.success for the three symbols: within
\* the bounds (here on a grid of twentieths), summing to 1, reaching target_return.
ScenarioGrid == { R(k, 20) : k \in -20..20 }

ScenarioFeasible(mu) ==
    { w \in { <<a, n, RSub(RInt(1), RAdd(a, n))>> : a \in ScenarioGrid, n \in ScenarioGrid } :
        /\ w[3] \in ScenarioGrid
        /\ RLe(target_return, RSumOver([j \in 1..3 |-> RMul(w[j], mu[j])], 1..3)) }

\* The scenario reads the history of the default accessor, which has every column;
\* the solver reports success with feasible weights or fails (init_guess).
ScenarioSolutions(mu) ==
    {[path |-> "not_converged", weights |-> EqualWeights(3)]}
    \cup { [path |-> "solved", weights |-> w] : w \in ScenarioFeasible(mu) }

end_to_end_scenario ==
    /\ last.op = "idle"
    /\ \E fed \in {Lifecycle(active_insights, ScenarioInsights, ScenarioContext.time,
                              removed_symbols)} :
        \E active \in {GetActiveInsights(fed, ScenarioContext.time)} :
        \E symbols \in {Sorted({ i.symbol : i \in active })} :
        \E sol \in ScenarioSolutions(ExpectedReturns(symbols, active)) :
        \E targets \in {WeightsToTargets(symbols, sol.weights, ScenarioContext)} :
        \E adjusted_targets \in {AdjustTargets(targets, ScenarioContext)} :
          /\ active_insights' = fed
          /\ removed_symbols' = {}
          /\ last' = [op |-> "end_to_end_scenario", context |-> ScenarioContext,
                      path |-> sol.path, symbols |-> symbols, weights |-> sol.weights,
                      targets |-> targets, adjusted_targets |-> adjusted_targets,
                      orders |-> Execute(adjusted_targets, ScenarioContext)]
    /\ UNCHANGED elsewhere

NextScenario == end_to_end_scenario \/ ret

SpecScenario == InitColl /\ [][NextScenario]_vars

-----------------------------------------------------------------------------
(* Properties of the risk gate (SpecRisk) *)

Distressed(context, symbol) ==
    /\ context.quant_scorecard[symbol] # Zero
    /\ RLt(context.quant_scorecard[symbol], min_altman_z)

\* C1: every target whose altman_z is present, non-zero and below min_altman_z comes
\* back from adjust_targets with quantity exactly 0, for every pre-gate quantity,
\* price and equity (the concentration cap leaves the zero untouched).
C1_DistressVetoIsZero ==
    last.op = "adjust_targets" =>
        \A j \in 1..Len(last.targets) :
            Distressed(last.context, last.targets[j].symbol)
                => last.result[j].quantity = Zero

\* C2: every target returned by adjust_targets whose symbol has a positive price has
\* |quantity * price| <= max_concentration * equity, long or short, also when the
\* price does not divide the capped notional.  Stated on the contexts with equity >= 0:
\* with a negative equity the bound is negative and no quantity can meet it.
C2_WithinConcentrationCap ==
    (last.op = "adjust_targets" /\ RLe(Zero, last.context.equity)) =>
        \A j \in 1..Len(last.result) :
            LET price == last.context.current_prices[last.result[j].symbol]
            IN  RGt(price, Zero) =>
                    RLe(RAbs(RMul(last.result[j].quantity, price)),
                        RMul(max_concentration, last.context.equity))

\* C12: adjust_targets returns exactly one target per input target, in the same order,
\* with the same symbol and tag, and leaves the input targets and the context (prices,
\* scorecard, equity) as they were when it was called.
C12_InputsUntouched ==
    last.op = "adjust_targets" =>
        /\ Len(last.result) = Len(last.targets)
        /\ \A j \in 1..Len(last.targets) :
              /\ last.result[j].symbol = last.targets[j].symbol
              /\ last.result[j].tag = last.targets[j].tag
        /\ last.after.targets = last.targets
        /\ last.after.context = last.context

\* Witness of C12: of two targets with different tags the first was vetoed and the
\* second capped, so both outputs differ in quantity from their inputs.
C12_Witness ==
    /\ last.op = "adjust_targets"
    /\ Len(last.targets) = 2
    /\ last.targets[1].tag # last.targets[2].tag
    /\ last.targets[1].symbol # last.targets[2].symbol
    /\ \A j \in 1..2 : last.result[j].quantity # last.targets[j].quantity
    /\ last.result[1].quantity = Zero
    /\ last.result[2].quantity # Zero

Unpriced(context, symbol) == RLe(context.current_prices[symbol], Zero)

\* C13 as stated: a target whose symbol has no resolvable (missing or non-positive)
\* price comes back from adjust_targets with the quantity of the input target.
C13_UnpricedPassThrough ==
    last.op = "adjust_targets" =>
        \A j \in 1..Len(last.targets) :
            Unpriced(last.context, last.targets[j].symbol)
                => last.result[j].quantity = last.targets[j].quantity

\* C13 amended: a target whose symbol has no resolvable price skips the concentration
\* cap only; the distress veto does not read the price and still applies, so the
\* returned quantity is 0 when the symbol is distressed and the input quantity
\* otherwise, whatever the size of the target.
C13_UnpricedSkipsCapOnly ==
    last.op = "adjust_targets" =>
        \A j \in 1..Len(last.targets) :
            Unpriced(last.context, last.targets[j].symbol) =>
                last.result[j].quantity =
                    IF Distressed(last.context, last.targets[j].symbol)
                    THEN Zero ELSE last.targets[j].quantity

\* Witness of C13: two targets without a price, each larger than the cap would allow
\* at the symbol's quote; the healthy one is returned as it was, the distressed one
\* with quantity 0.
C13_Witness ==
    /\ last.op = "adjust_targets"
    /\ Len(last.targets) = 2
    /\ RGt(last.context.equity, Zero)
    /\ \A j \in 1..2 :
          /\ Unpriced(last.context, last.targets[j].symbol)
          /\ RGt(RAbs(RMul(last.targets[j].quantity, Quote(last.targets[j].symbol))),
                 RMul(max_concentration, last.context.equity))
    /\ ~Distressed(last.context, last.targets[1].symbol)
    /\ last.result[1].quantity = last.targets[1].quantity
    /\ Distressed(last.context, last.targets[2].symbol)
    /\ last.result[2].quantity = Zero

\* The target is over the cap when the cap step looks at it: its symbol has a positive
\* price and the notional of its (possibly vetoed) quantity exceeds
\* max_concentration * equity.
OverCap(target, context) ==
    LET price  == context.current_prices[target.symbol]
        vetoed == IF Distressed(context, target.symbol) THEN Zero ELSE target.quantity
    IN  /\ RGt(price, Zero)
        /\ RGt(RAbs(RMul(vetoed, price)), RMul(max_concentration, context.equity))

\* C14: a target whose notional |quantity * price| exceeds max_concentration * equity
\* is clamped with its sign preserved: a long target stays strictly positive, a short
\* target strictly negative, and the magnitude is at most
\* max_concentration * equity / price.  Stated for a positive equity (with an equity
\* <= 0 no quantity of the same sign can meet the bound) and for the targets the
\* veto leaves alone.
C14_ClampPreservesSign ==
    (last.op = "adjust_targets" /\ RGt(last.context.equity, Zero)) =>
        \A j \in 1..Len(last.targets) :
            LET t     == last.targets[j]
                price == last.context.current_prices[t.symbol]
                q     == last.result[j].quantity
            IN  (OverCap(t, last.context) /\ ~Distressed(last.context, t.symbol)) =>
                    /\ RGt(t.quantity, Zero) => RGt(q, Zero)
                    /\ RLt(t.quantity, Zero) => RLt(q, Zero)
                    /\ RLe(RAbs(q), RDiv(RMul(max_concentration, last.context.equity), price))

-----------------------------------------------------------------------------
(* Properties of the execution planner (SpecExec) *)

Delta(target, context) ==
    RSub(target.quantity, CurrentQty(context.positions, target.symbol))

TradeValue(target, context) ==
    RAbs(RMul(Delta(target, context), context.current_prices[target.symbol]))

\* C3: execute returns the empty list whenever every target's quantity equals the net
\* holding (long - short) of its symbol, for every min_trade_value and price map.
C3_HoldingsYieldNoOrders ==
    ( /\ last.op = "execute"
      /\ \A j \in 1..Len(last.targets) : Delta(last.targets[j], last.context) = Zero )
        => last.result = <<>>

\* C4: every order returned by execute is, for one of the targets: ticker = symbol,
\* delta = quantity - (long - short) (absent symbol: 0), action "buy" when delta > 0
\* and "sell" when delta < 0 and never anything else, quantity = |delta|,
\* trade_value = |delta * price|, cost_estimate = trade_value * slippage rate.
C4_OrderFields ==
    last.op = "execute" =>
        \A k \in 1..Len(last.result) :
            \E j \in 1..Len(last.targets) :
                LET o     == last.result[k]
                    delta == Delta(last.targets[j], last.context)
                IN  /\ o.ticker = last.targets[j].symbol
                    /\ RGt(delta, Zero) => o.action = "buy"
                    /\ RLt(delta, Zero) => o.action = "sell"
                    /\ o.action \in {"buy", "sell"}
                    /\ o.quantity = RAbs(delta)
                    /\ o.trade_value = TradeValue(last.targets[j], last.context)
                    /\ o.cost_estimate = RMul(o.trade_value, slippage_pct)

\* The target has a positive price and a trade value of at least min_trade_value.
Tradable(target, context) ==
    /\ RGt(context.current_prices[target.symbol], Zero)
    /\ RLe(context.min_trade_value, TradeValue(target, context))

\* C5: execute emits an order for a target exactly when its symbol has a positive price
\* and |delta * price| >= min_trade_value; the other targets (value strictly below the
\* threshold, or no positive price) produce nothing and leave the orders of the rest
\* as they are: the result is, in order, one order per tradable target.
C5_OrderIffTradable ==
    last.op = "execute" =>
        LET tradable == { j \in 1..Len(last.targets) : Tradable(last.targets[j], last.context) }
            Rank(j)  == Cardinality({ i \in tradable : i <= j })
        IN  /\ Len(last.result) = Cardinality(tradable)
            /\ \A j \in tradable :
                  /\ last.result[Rank(j)].ticker = last.targets[j].symbol
                  /\ last.result[Rank(j)].quantity = RAbs(Delta(last.targets[j], last.context))
                  /\ last.result[Rank(j)] = ExecuteOne(last.targets[j], last.context)[1]

\* Witness of C5: of two targets the first, worth less than the threshold, is
\* suppressed and the second, worth exactly the threshold, is ordered.
C5_Witness ==
    /\ last.op = "execute"
    /\ Len(last.targets) = 2
    /\ RGt(last.context.current_prices[last.targets[1].symbol], Zero)
    /\ RGt(TradeValue(last.targets[1], last.context), Zero)
    /\ RLt(TradeValue(last.targets[1], last.context), last.context.min_trade_value)
    /\ RGt(last.context.current_prices[last.targets[2].symbol], Zero)
    /\ TradeValue(last.targets[2], last.context) = last.context.min_trade_value
    /\ Len(last.result) = 1
    /\ last.result[1].ticker = last.targets[2].symbol

\* C23: execute is a pure function of its inputs: a call leaves the planner's
\* attributes, the targets and the context (holdings, prices) as they were, and
\* returns the same orders as any earlier call with the same targets and context,
\* whatever calls were made in between.
C23_ExecuteIsPure ==
    [][ last'.op = "planner_execute" =>
          /\ planner' = planner
          /\ last'.after.targets = last'.targets
          /\ last'.after.context = last'.context
          /\ ( /\ prev.op = "planner_execute"
               /\ prev.targets = last'.targets
               /\ prev.context = last'.context ) => last'.result = prev.result
      ]_vars

\* Witness of C23: a call that returned orders was repeated with the same targets and
\* context and returned the same orders.
C23_Witness ==
    /\ last.op = "planner_execute"
    /\ prev.op = "planner_execute"
    /\ prev.targets = last.targets
    /\ prev.context = last.context
    /\ Len(last.result) = 2
    /\ last.result = prev.result

-----------------------------------------------------------------------------
(* Properties of portfolio construction (SpecPCM) *)

\* The symbols with an active insight in the collection at the time of the call.
ActiveSymbols == { i.symbol : i \in GetActiveInsights(active_insights, last.context.time) }

\* The implied weight of the targets: quantity_i * price_i / equity, summed.
ImpliedExposure ==
    RSumOver([k \in 1..Len(last.result) |->
                 RDiv(RMul(last.result[k].quantity,
                           last.context.current_prices[last.result[k].symbol]),
                      last.context.equity)],
             1..Len(last.result))

Solved == last.op = "create_targets" /\ last.path = "solved"

\* C9 as stated: for a non-fallback MVO solve the implied weights of the returned
\* targets sum to 1 (the sum is undefined for an equity of 0, which is left out).
C9_FullyInvested ==
    (Solved /\ last.context.equity # Zero) => ImpliedExposure = RInt(1)

\* C9 amended: for a non-fallback MVO solve in which every active symbol has a
\* positive price (and the equity is not 0), the implied weights of the returned
\* targets sum to 1.
C9_FullyInvestedWhenAllPriced ==
    ( /\ Solved
      /\ last.context.equity # Zero
      /\ \A s \in ActiveSymbols : RGt(last.context.current_prices[s], Zero) )
        => ImpliedExposure = RInt(1)

\* Witness of C9: a solve over two priced symbols with unequal weights.
C9_Witness ==
    /\ Solved
    /\ last.context.equity # Zero
    /\ Cardinality(ActiveSymbols) = 2
    /\ \A s \in ActiveSymbols : RGt(last.context.current_prices[s], Zero)
    /\ last.weights[1] # last.weights[2]
    /\ Len(last.result) = 2

\* The index of symbol s in the ascending list of the active symbols.
IndexOf(s) == Cardinality({ x \in ActiveSymbols : x <= s })

\* C10: create_targets indexes its intermediates by the ascending list of the distinct
\* active symbols and returns exactly one target per active symbol with a positive
\* price, in strictly ascending symbol order, the target of symbols[i] being
\* equity * w[i] / price(symbols[i]); with no active insight it returns the empty list.
C10_SortedAlignedTargets ==
    last.op = "create_targets" =>
        LET priced == { s \in ActiveSymbols : RGt(last.context.current_prices[s], Zero) }
        IN  /\ ActiveSymbols = {} => last.result = <<>>
            /\ Len(last.symbols) = Cardinality(ActiveSymbols)
            /\ Len(last.weights) = Len(last.symbols)
            /\ \A s \in ActiveSymbols : last.symbols[IndexOf(s)] = s
            /\ Len(last.result) = Cardinality(priced)
            /\ { last.result[k].symbol : k \in 1..Len(last.result) } = priced
            /\ \A k \in 1..(Len(last.result) - 1) :
                  last.result[k].symbol < last.result[k + 1].symbol
            /\ \A k \in 1..Len(last.result) :
                  LET s == last.result[k].symbol
                  IN  last.result[k].quantity =
                          RDiv(RMul(last.context.equity, last.weights[IndexOf(s)]),
                               last.context.current_prices[s])

\* Witness of C10: of two active symbols the first has no price, so the only target
\* returned is built from the second weight, which differs from the first.
C10_Witness ==
    /\ last.op = "create_targets"
    /\ ActiveSymbols = {1, 2}
    /\ last.context.current_prices[1] = Zero
    /\ RGt(last.context.current_prices[2], Zero)
    /\ last.context.equity # Zero
    /\ last.weights[1] # last.weights[2]
    /\ Len(last.result) = 1
    /\ last.result[1].symbol = 2

\* C11: when create_targets returns, the owned collection holds no insight expired as
\* of context.time and no insight of a symbol that on_securities_changed had recorded
\* as removed before the call (an insight supplied in this very call included), the
\* pending-removal record is empty, and no returned target belongs to such a symbol.
C11_LifecyclePurges ==
    [][ last'.op = "create_targets" =>
          /\ \A i \in active_insights' :
                /\ last'.context.time < i.generated_time_utc + i.period
                /\ i.symbol \notin removed_symbols
          /\ removed_symbols' = {}
          /\ \A k \in 1..Len(last'.result) : last'.result[k].symbol \notin removed_symbols
      ]_vars

\* Witness of C11: a symbol was pending removal and live insights of it were purged,
\* and the other symbol kept its insight and got its target.
C11_Witness ==
    /\ last.op = "create_targets"
    /\ last.removed # {}
    /\ last.cleared # {}
    /\ \A e \in last.cleared : e.symbol \in last.removed
    /\ active_insights # {}
    /\ Len(last.result) = 1
    /\ last.result[1].symbol \notin last.removed

\* C20: when the history accessor returns nothing, an empty frame, or a frame missing
\* the column of some active symbol, create_targets resolves the cycle with the
\* equal-weight fallback: each of the N active symbols with a positive price gets the
\* target equity / (N * price).
C20_HistoryFallback ==
    (last.op = "create_targets" /\ last.history \in {"none", "empty", "missing_column"}) =>
        LET N == Cardinality(ActiveSymbols)
        IN  \A s \in ActiveSymbols :
                RGt(last.context.current_prices[s], Zero) =>
                    \E k \in 1..Len(last.result) :
                        /\ last.result[k].symbol = s
                        /\ last.result[k].quantity =
                              RDiv(last.context.equity,
                                   RMul(RInt(N), last.context.current_prices[s]))

\* C21: when the solver reports non-convergence, create_targets does not abort: it
\* takes the equal-weight initial guess 1/N as the weights and returns the targets
\* computed from it, equity / (N * price) for each active symbol with a positive price.
C21_NonConvergenceFallsBack ==
    (last.op = "create_targets" /\ last.path = "not_converged") =>
        LET N      == Cardinality(ActiveSymbols)
            priced == { s \in ActiveSymbols : RGt(last.context.current_prices[s], Zero) }
        IN  /\ N >= 1
            /\ last.weights = [j \in 1..N |-> R(1, N)]
            /\ Len(last.result) = Cardinality(priced)
            /\ \A s \in priced :
                  \E k \in 1..Len(last.result) :
                      /\ last.result[k].symbol = s
                      /\ last.result[k].quantity =
                            RDiv(last.context.equity,
                                 RMul(RInt(N), last.context.current_prices[s]))

\* Witness of C21: the solver failed on two priced symbols and both got their
\* equal-weight target.
C21_Witness ==
    /\ last.op = "create_targets"
    /\ last.path = "not_converged"
    /\ last.history = "ok"
    /\ Cardinality(ActiveSymbols) = 2
    /\ RGt(last.context.equity, Zero)
    /\ Len(last.result) = 2
    /\ \A k \in 1..2 : RGt(last.result[k].quantity, Zero)

\* mu of the call, rebuilt from the active insights the call left in the collection.
CallMu ==
    ExpectedReturns(last.symbols, GetActiveInsights(active_insights, last.context.time))

\* w . mu
PortfolioReturn(w, mu) ==
    RSumOver([j \in 1..Len(w) |-> RMul(w[j], mu[j])], 1..Len(w))

\* The calls whose weights are the equal-weight guess.
UsedGuess == last.op = "create_targets" /\ last.path \in {"not_converged", "fallback"}

\* C22 as stated: the equal-weight vector used as the initial guess and as the
\* fallback is feasible for every set of active insights: its weights sum to 1, each
\* lies in [-1, 1], and w . mu >= target_return.
C22_EqualWeightFeasible ==
    UsedGuess =>
        /\ RSumOver(last.weights, 1..Len(last.weights)) = RInt(1)
        /\ \A j \in 1..Len(last.weights) :
              RLe(RInt(-1), last.weights[j]) /\ RLe(last.weights[j], RInt(1))
        /\ RLe(target_return, PortfolioReturn(last.weights, CallMu))

\* C22 amended: the equal-weight vector sums to 1 and each weight is 1/N, within
\* [0, 1] and so within the bounds; it meets the return floor w . mu >= target_return
\* exactly when the mean of mu over the active symbols is at least target_return.
C22_EqualWeightBudgetAndBounds ==
    UsedGuess =>
        LET n == Len(last.symbols)
        IN  /\ Len(last.weights) = n
            /\ RSumOver(last.weights, 1..n) = RInt(1)
            /\ \A j \in 1..n :
                  /\ last.weights[j] = R(1, n)
                  /\ RLe(Zero, last.weights[j]) /\ RLe(last.weights[j], RInt(1))
            /\ RLe(target_return, PortfolioReturn(last.weights, CallMu))
                  <=> RLe(RMul(RInt(n), target_return), RSumOver(CallMu, 1..n))

\* Witness of C22: the guess was used for two symbols whose expected returns average
\* below target_return, so the guess misses the return floor.
C22_Witness ==
    /\ UsedGuess
    /\ Len(last.symbols) = 2
    /\ last.weights[1] = R(1, 2)
    /\ RLt(PortfolioReturn(last.weights, CallMu), target_return)

\* C24: create_targets called twice in a row with the same new_insights and the same
\* context, whatever symbols on_securities_changed recorded before the first call,
\* returns equal target lists, and the collection after the second call is in the
\* state the first call left it in.
C24_RepeatedCallIdempotent ==
    last.op = "create_targets_again" =>
        /\ last.call.result = last.first.call.result
        /\ active_insights = last.first.call.store

\* C26: the generator use of the synthetic-history fallback is scoped locally: when
\* the returns matrix has been fetched for create_targets, from real history or from
\* synthetic returns, the state of the process-wide generator is the state before the
\* call, and the synthetic returns are the same on every call (the values seed 42
\* yields for the given number of symbols).
C26_RngScopedLocally ==
    [][ last'.op = "get_returns_matrix" =>
          /\ rng' = rng
          /\ last'.returns.kind = "synthetic" =>
                last'.returns.values
                    = <<Sample(np_random_seed_state(42), lookback * Len(last'.symbols))>>
      ]_vars

-----------------------------------------------------------------------------
(* Properties of one cycle (SpecCycle) *)

\* The symbols with an active insight when the cycle ran.
CycleSymbols == { i.symbol : i \in GetActiveInsights(active_insights, last.time) }

CyclePriced == { s \in CycleSymbols : RGt(last.context.current_prices[s], Zero) }

-----------------------------------------------------------------------------
(* Properties of the cycles on one context (SpecPipeline) *)

\* The holding of the order's symbol once the order is filled.
PositionAfter(order, context) ==
    LET current == CurrentQty(context.positions, order.ticker)
    IN  IF order.action = "buy" THEN RAdd(current, order.quantity)
        ELSE IF order.action = "sell" THEN RSub(current, order.quantity)
        ELSE current

\* C27: in every cycle the stages run once each in the order alpha update -> insight
\* accumulation and expiry purge -> create_targets -> adjust_targets -> execute, and
\* execute receives the list adjust_targets returned: there is one adjusted target per
\* target, every order is the difference between a risk-adjusted target and the
\* current holding of its symbol, and an order for a vetoed (distressed) priced
\* symbol moves its position to exactly 0.
C27_OrdersFromAdjustedTargets ==
    last.op = "pipeline_cycle" =>
        /\ Len(last.adjusted_targets) = Len(last.targets)
        /\ \A k \in 1..Len(last.result) :
              LET o == last.result[k]
              IN  /\ \E j \in 1..Len(last.adjusted_targets) :
                        /\ last.adjusted_targets[j].symbol = o.ticker
                        /\ PositionAfter(o, last.context) = last.adjusted_targets[j].quantity
                  /\ Distressed(last.context, o.ticker) => PositionAfter(o, last.context) = Zero

\* C28: once a symbol recorded by on_securities_changed has been purged by a
\* create_targets call, no later cycle on the same context and portfolio model
\* produces a target for it, unless an alpha model has emitted a new insight for it
\* since: the unexpired insights the context accumulated before the removal do not
\* bring the symbol back.
C28_PurgedSymbolStaysOut ==
    last.op = "pipeline_cycle" =>
        \A k \in 1..Len(last.targets) : last.targets[k].symbol \notin purged

-----------------------------------------------------------------------------
(* Properties of the two threads on one model (SpecThreads) *)

\* C29: when on_securities_changed is called from another thread while create_targets
\* runs on the same model, no recorded removal is lost: every insight that was in the
\* collection when its symbol was passed to on_securities_changed, and is still there,
\* has its symbol on the list the running or the next create_targets call clears.
C29_NoRemovalLost ==
    \A e \in pending : e.symbol \in removed_symbols

-----------------------------------------------------------------------------
(* Properties of TradingService (SpecTrading) *)

\* How many orders the brokerage provider received for one trade.
SubmissionsOf(trade_id) ==
    Cardinality({ k \in DOMAIN submissions : submissions[k] = trade_id })

\* C30: over any sequence of create_trade_request, execute_trade and reject_trade
\* calls, TradingService submits a given trade to the brokerage provider at most
\* once, and a trade whose status is EXECUTED, REJECTED or FAILED never changes
\* status again.
C30_SubmittedOnceAndTerminalFinal ==
    /\ [](\A trade_id \in DOMAIN trades : SubmissionsOf(trade_id) <= 1)
    /\ [][\A trade_id \in DOMAIN trades :
            trades[trade_id].status \in TerminalStatuses
                => trades'[trade_id].status = trades[trade_id].status]_vars

-----------------------------------------------------------------------------
(* Properties of the end-to-end scenario (SpecScenario) *)

\* The quantity of the target of a symbol in a list of targets.
QuantityOf(targets, symbol) ==
    LET k == CHOOSE j \in 1..Len(targets) : targets[j].symbol = symbol
    IN  targets[k].quantity

\* The gate's part of the scenario: one adjusted target per symbol, that of TSLA is
\* 0, and the notional of every adjusted target is at most 20% of the equity.
ScenarioGateHolds ==
    /\ { last.adjusted_targets[j].symbol : j \in 1..Len(last.adjusted_targets) }
          = ScenarioSymbols
    /\ QuantityOf(last.adjusted_targets, TSLA) = Zero
    /\ \A j \in 1..Len(last.adjusted_targets) :
          RLe(RAbs(RMul(last.adjusted_targets[j].quantity,
                        last.context.current_prices[last.adjusted_targets[j].symbol])),
              RMul(R(20, 100), last.context.equity))

-----------------------------------------------------------------------------
(* Properties of InsightCollection (SpecColl) *)

Keys == Symbols \X Models

SameKeyOlderNewer(i1, i2) ==
    /\ Key(i1) = Key(i2)
    /\ i1.generated_time_utc < i2.generated_time_utc

\* C6: for i1, i2 with the same (symbol, source_model) and t1 < t2, add leaves i2 as
\* the single stored insight of the key, whether the two arrive in one call as
\* [i1, i2] or [i2, i1] (key empty before), or in two calls in either order (the
\* insight of the first call is still stored when the second call is made).
C6_NewestWinsAnyOrder ==
    [][ last'.op = "add" =>
        \A i1 \in Insights, i2 \in Insights :
            SameKeyOlderNewer(i1, i2) =>
                LET before == Stored(active_insights, Key(i1))
                    after  == Stored(active_insights', Key(i1))
                IN  /\ (last'.insights \in {<<i1, i2>>, <<i2, i1>>} /\ before = {})
                        => after = {i2}
                    /\ (last'.insights = <<i2>> /\ before = {i1}) => after = {i2}
                    /\ (last'.insights = <<i1>> /\ before = {i2}) => after = {i2}
      ]_vars

\* Witness of C6: the newer insight came first in the list and is the one stored.
C6_Witness ==
    /\ last.op = "add"
    /\ Len(last.insights) = 2
    /\ SameKeyOlderNewer(last.insights[2], last.insights[1])
    /\ Stored(active_insights, Key(last.insights[1])) = {last.insights[1]}

AtMostOnePerKey ==
    \A k \in Keys : Cardinality(Stored(active_insights, k)) <= 1

MaxOf(S) == CHOOSE x \in S : \A y \in S : y <= x

\* What add must leave stored for key k: of the stored insight followed by the
\* insights of the list with that key, the last one that has the greatest timestamp.
ExpectedStored(store, insights, k) ==
    LET HasKey(x) == Key(x) = k
        old       == Stored(store, k)
        line      == (IF old = {} THEN <<>> ELSE <<CHOOSE e \in old : TRUE>>)
                     \o SelectSeq(insights, HasKey)
    IN  IF line = <<>> THEN {}
        ELSE LET newest == MaxOf({ line[j].generated_time_utc : j \in 1..Len(line) })
                 pick   == MaxOf({ j \in 1..Len(line) : line[j].generated_time_utc = newest })
             IN  {line[pick]}

\* C7: after any sequence of add, remove_expired and clear there is at most one
\* insight per (symbol, source_model); add inserts an insight whose key is absent,
\* replaces the stored one iff new.generated_time >= stored.generated_time (on a tie
\* the last processed wins) and otherwise leaves the entry unchanged.
C7_OnePerKeyAndAddRule ==
    /\ []AtMostOnePerKey
    /\ [][ last'.op = "add" =>
            /\ \A k \in Keys :
                  Stored(active_insights', k) = ExpectedStored(active_insights, last'.insights, k)
            /\ \A i \in Insights :
                  last'.insights = <<i>> =>
                      LET before == Stored(active_insights, Key(i))
                      IN  /\ before = {} => active_insights' = active_insights \cup {i}
                          /\ \A e \in before :
                                /\ i.generated_time_utc >= e.generated_time_utc
                                     => active_insights' = (active_insights \ {e}) \cup {i}
                                /\ i.generated_time_utc < e.generated_time_utc
                                     => active_insights' = active_insights
          ]_vars

\* Witness of C7: two different insights with the same key and the same timestamp were
\* added in one call, and the second one is stored.
C7_Witness ==
    /\ last.op = "add"
    /\ Len(last.insights) = 2
    /\ Key(last.insights[1]) = Key(last.insights[2])
    /\ last.insights[1].generated_time_utc = last.insights[2].generated_time_utc
    /\ last.insights[1] # last.insights[2]
    /\ Stored(active_insights, Key(last.insights[2])) = {last.insights[2]}

\* C15: remove_expired(as_of) deletes exactly the stored insights with
\* generated_time + period <= as_of and leaves every other entry as it was; afterwards
\* every stored insight is unexpired as of as_of, and get_active_insights(as_of)
\* returns the same set as it would have before the call.
C15_RemoveExpiredExact ==
    [][ last'.op = "remove_expired" =>
          LET as_of == last'.utc_time
          IN  /\ active_insights' =
                    { e \in active_insights : ~(e.generated_time_utc + e.period <= as_of) }
              /\ \A e \in active_insights' : as_of < e.generated_time_utc + e.period
              /\ GetActiveInsights(active_insights', as_of)
                    = GetActiveInsights(active_insights, as_of)
      ]_vars

\* Witness of C15: the call deleted an insight exactly at its expiry instant and kept
\* another one.
C15_Witness ==
    /\ last.op = "remove_expired"
    /\ \E e \in last.deleted : e.generated_time_utc + e.period = last.utc_time
    /\ active_insights # {}

\* C16: clear(symbols) deletes exactly the stored insights whose symbol is in the given
\* set, from every source model and expired or not, and leaves the entries of all
\* other symbols as they were.
C16_ClearExact ==
    [][ last'.op = "clear" =>
          /\ active_insights' = { e \in active_insights : e.symbol \notin last'.symbols }
          /\ \A e \in active_insights :
                e.symbol \notin last'.symbols => e \in active_insights'
          /\ \A e \in active_insights' : e.symbol \notin last'.symbols
      ]_vars

\* Witness of C16: the call deleted the insights of both source models of one symbol,
\* one of them expiring earlier than the other, and kept an insight of the other
\* symbol.
C16_Witness ==
    /\ last.op = "clear"
    /\ \E a \in last.deleted, b \in last.deleted :
          /\ a.symbol = b.symbol
          /\ a.source_model # b.source_model
          /\ a.generated_time_utc + a.period < b.generated_time_utc + b.period
    /\ \E e \in active_insights : e.symbol \notin last.symbols

\* C17: constructing an Insight with a non-finite magnitude (NaN, +Inf, -Inf) or with
\* a period <= 0 fails with a validation error and yields no instance; so after any
\* sequence of operations every insight stored in the collection has a finite
\* magnitude, a strictly positive period and a confidence in [0, 1].
C17_OnlyValidInsights ==
    /\ last.op = "Insight" =>
          ( (last.args.magnitude \in {NaN, PosInf, NegInf} \/ last.args.period <= 0)
                => (last.raised /\ last.instance = {}) )
    /\ \A i \in active_insights :
          /\ i.magnitude \notin {NaN, PosInf, NegInf}
          /\ i.period > 0
          /\ i.confidence # NaN
          /\ RLe(Zero, i.confidence) /\ RLe(i.confidence, RInt(1))

\* Witness of C17: the collection holds insights, and a construction whose only fault
\* is a period of exactly 0 was refused.
C17_Witness ==
    /\ last.op = "Insight"
    /\ last.args.period = 0
    /\ last.args.magnitude = ModelMagnitude(last.args.source_model)
    /\ last.args.confidence = ModelConfidence(last.args.source_model)
    /\ last.raised
    /\ active_insights # {}

\* C18: assigning to any field of a constructed Insight or PortfolioTarget fails with
\* an error and leaves every field of the object as it was.
C18_AssignmentFails ==
    last.op = "setattr" => (last.raised /\ last.after = last.obj)

\* Witness of C18: a new quantity was assigned to a PortfolioTarget; the assignment
\* raised and the quantity is the old one.
C18_Witness ==
    /\ last.op = "setattr"
    /\ last.class = "PortfolioTarget"
    /\ last.name = "quantity"
    /\ last.value # last.obj.quantity
    /\ last.raised
    /\ last.after.quantity = last.obj.quantity

\* C8: get_active_insights(as_of) returns a stored insight generated at t with period P
\* exactly when as_of < t + P; at as_of = t + P and later it is expired and not returned.
C8_ExpiryBoundary ==
    last.op = "get_active_insights" =>
        /\ last.result \subseteq active_insights
        /\ \A i \in active_insights :
              /\ i \in last.result <=> last.utc_time < i.generated_time_utc + i.period
              /\ is_expired(i, last.utc_time) <=> i.generated_time_utc + i.period <= last.utc_time

\* Witness of C8: one stored insight is queried exactly at its expiry and left out,
\* another one tick before its expiry and returned.
C8_Witness ==
    /\ last.op = "get_active_insights"
    /\ \E i \in active_insights :
          /\ i.generated_time_utc + i.period = last.utc_time
          /\ i \notin last.result
    /\ \E j \in active_insights :
          /\ j.generated_time_utc + j.period = last.utc_time + 1
          /\ j \in last.result

=============================================================================
